---------------------------- MODULE Spec2Model ----------------------------
(***************************************************************************)
(* Per-user document index and retrieval pipeline of backend/              *)
(* rag_pipeline.py, driven through the endpoints of backend/main.py.       *)
(*                                                                         *)
(* A user's directory data/<user_id>/ holds the uploaded source files,     *)
(* metadata.json (the Ledger), chunks.pkl (the Chunk Store) and            *)
(* faiss.index (the Vector Index).  Upload, Delete and Query are one        *)
(* request handled to completion; the steps over inflight are the same     *)
(* add and delete taken one file access at a time, for requests that       *)
(* overlap or that the process does not survive.                           *)
(*                                                                         *)
(* Abstractions.  A text is a sequence of paragraphs; paragraph 0 is       *)
(* blank (whitespace only) and a non-blank paragraph is as long as one     *)
(* chunk, so the splitter emits the non-blank paragraphs in order.  An     *)
(* embedding is a 3-vector of integers and distances are squared L2        *)
(* distances counted in tenths, so the threshold 1.2 is 12.  The           *)
(* uploaded_at field of a Ledger entry is left out.                        *)
(***************************************************************************)
EXTENDS Integers, Sequences, FiniteSets, TLC

VARIABLES
    srcFiles,    \* [user -> [basename -> [exists, text]]]: uploaded source files
    metadata,    \* [user -> [exists, entries]]: metadata.json
    chunksPkl,   \* [user -> [exists, ok, chunks]]: chunks.pkl
    faissIndex,  \* [user -> [exists, ok, rows]]: faiss.index
    last,        \* the request handled last and what it returned
    inflight,    \* [worker -> the add or delete it is in the middle of]
    episode      \* the state the in-flight requests started from

vars == <<srcFiles, metadata, chunksPkl, faissIndex, last, inflight, episode>>

-----------------------------------------------------------------------------
(* Bounds and input sets *)

\* Largest number of Ledger entries a request may start from when it uploads.
MaxDocs == 2

\* Largest Chunk Store an upload may leave, were all of its text to be added.
MaxChunks == 4

Users == {"u1", "u2"}

\* Base names of uploaded files.
FileNames == {"a.txt", "b.txt", "c.bin"}

\* A filename as the client sends it: a base name, or a base name behind a
\* "../<user>/" prefix.  dir = "." is the requesting user's own directory.
PlainPaths == [dir : {"."}, base : FileNames]
TraversalPaths == [dir : Users, base : {"a.txt"}]
OwnPaths == [dir : {"."}, base : {"a.txt"}]

\* Texts a client uploads: blank, one chunk, two chunks.
Texts == {<<0>>, <<1>>, <<2, 3>>}

\* The files a client uploads: a.txt with any of the texts, b.txt with one
\* chunk, and a file of an unsupported type.
File(base, text) == [path |-> [dir |-> ".", base |-> base], text |-> text]
UploadInputs ==
    {File("a.txt", text) : text \in Texts} \cup {File("b.txt", <<4>>), File("c.bin", <<1>>)}

\* Embedding call sites that fail during one request.
NoFailure == {}
Failures == {{}, {"build"}, {"encode"}}

\* The writes of save_user_index that may raise: opening chunks.pkl for
\* writing, or faiss.write_index after chunks.pkl has been written.
SaveFailures == {{}, {"save_chunks"}, {"save_index"}}

Queries == {"q_origin", "q_three", "q_far"}

-----------------------------------------------------------------------------
(* Constants of rag_pipeline.py *)

\* RELEVANCE_THRESHOLD = 1.2, in tenths of a squared distance unit.
RELEVANCE_THRESHOLD == 12

\* k of index.search(..., k=3).
TOP_K == 3

\* The distance faiss reports for a missing neighbour (label -1).
FLT_MAX == 1000000

SupportedExts == {"pdf", "txt", "csv", "tsv", "xlsx", "docx", "pptx"}

-----------------------------------------------------------------------------
(* Files *)

NoSrc == [exists |-> FALSE, text |-> <<>>]
NoMetadata == [exists |-> FALSE, entries |-> <<>>]
NoChunks == [exists |-> FALSE, ok |-> TRUE, chunks |-> <<>>]
NoIndex == [exists |-> FALSE, ok |-> TRUE, rows |-> <<>>]

\* ext = filename.lower().split(".")[-1]
Ext(base) ==
    CASE base = "a.txt" -> "txt"
      [] base = "b.txt" -> "txt"
      [] base = "c.bin" -> "bin"

\* os.path.join(user_dir, filename): the directory a client filename lands in.
JoinDir(user_id, path) == IF path.dir = "." THEN user_id ELSE path.dir

\* text.strip() is empty
IsBlank(text) == \A i \in 1..Len(text) : text[i] = 0

\* RecursiveCharacterTextSplitter.split_text: the non-blank paragraphs in order.
split_text(text) == SelectSeq(text, LAMBDA p : p # 0)

\* chunk_file(file_path): chunks of the file, [] for an unsupported type, an
\* unreadable file or blank text.
chunk_file(base, file) ==
    IF Ext(base) \notin SupportedExts THEN <<>>
    ELSE IF ~file.exists THEN <<>>
    ELSE IF IsBlank(file.text) THEN <<>>
    ELSE split_text(file.text)

-----------------------------------------------------------------------------
(* Embedding provider and vector index *)

\* embed_model.encode of one chunk.
Embed(chunk) ==
    CASE chunk = 1 -> <<0, 0, 0>>
      [] chunk = 2 -> <<2, 2, 2>>
      [] chunk = 3 -> <<3, 2, 0>>
      [] chunk = 4 -> <<0, 3, 0>>

\* embed_model.encode([query]).
EmbedQuery(q) ==
    CASE q = "q_origin" -> <<0, 0, 0>>
      [] q = "q_three" -> <<3, 2, 0>>
      [] q = "q_far" -> <<6, 6, 6>>

encode(chunks) == [i \in 1..Len(chunks) |-> Embed(chunks[i])]

\* Squared Euclidean distance of IndexFlatL2.
L2(a, b) ==
    (a[1] - b[1]) * (a[1] - b[1]) + (a[2] - b[2]) * (a[2] - b[2])
        + (a[3] - b[3]) * (a[3] - b[3])

\* An index held in memory, or None.
NoneIndex == [some |-> FALSE, rows |-> <<>>]
SomeIndex(rows) == [some |-> TRUE, rows |-> rows]

\* build_faiss_index(chunks): None for no chunks or a failing embedding call.
build_faiss_index(chunks, failing) ==
    IF chunks = <<>> THEN NoneIndex
    ELSE IF "build" \in failing THEN NoneIndex
    ELSE SomeIndex(encode(chunks))

load_user_index_IgnoresDamage(cp, fi) ==
    IF ~fi.exists \/ ~cp.exists THEN [index |-> NoneIndex, chunks |-> <<>>]
    ELSE [index |-> SomeIndex(fi.rows), chunks |-> cp.chunks]

\* load_user_index(user_id): (index, chunks), or (None, None).
load_user_index(cp, fi) ==
    IF ~fi.exists \/ ~cp.exists THEN [index |-> NoneIndex, chunks |-> <<>>]
    ELSE IF ~fi.ok \/ ~cp.ok THEN [index |-> NoneIndex, chunks |-> <<>>]
    ELSE [index |-> SomeIndex(fi.rows), chunks |-> cp.chunks]

\* What save_user_index(user_id, index, chunks) leaves on disk.
SavedChunks(chunks) == [exists |-> TRUE, ok |-> TRUE, chunks |-> chunks]
SavedIndex(rows) == [exists |-> TRUE, ok |-> TRUE, rows |-> rows]

\* save_user_index(user_id, index, chunks) on the artifacts cp, fi: chunks.pkl
\* is written first, then faiss.index; an exception is printed and swallowed,
\* and the writes not reached are not made.
save_user_index(cp, fi, rows, chunks, failing) ==
    IF "save_chunks" \in failing THEN [chunksPkl |-> cp, faissIndex |-> fi]
    ELSE IF "save_index" \in failing
    THEN [chunksPkl |-> SavedChunks(chunks), faissIndex |-> fi]
    ELSE [chunksPkl |-> SavedChunks(chunks), faissIndex |-> SavedIndex(rows)]


\* clear_user_index(user_id): both artifacts removed.
clear_user_index(cp, fi) == [chunksPkl |-> NoChunks, faissIndex |-> NoIndex]

-----------------------------------------------------------------------------
(* Ledger *)

Entry(base, n) == [file |-> base, chunks |-> n]

\* update_metadata(user_id, file_path, num_chunks): the Ledger with one entry
\* appended; a missing Ledger starts empty.
update_metadata(md, base, num_chunks) ==
    [exists |-> TRUE,
     entries |-> Append(IF md.exists THEN md.entries ELSE <<>>,
                        Entry(base, num_chunks))]

RECURSIVE SumChunks(_)
SumChunks(entries) ==
    IF entries = <<>> THEN 0
    ELSE Head(entries).chunks + SumChunks(Tail(entries))

-----------------------------------------------------------------------------
(* add_new_document *)

NoChunksGenerated_Never(chunks) == FALSE

\* "if not chunks": the document is skipped.
NoChunksGenerated(chunks) == chunks = <<>>

EncodeRaises_Swallowed(failing) == FALSE

\* embed_model.encode(chunks) of line 312 raises: the except of
\* add_new_document returns False before anything is saved.
EncodeRaises(failing) == "encode" \in failing

IndexAdd_Prepend(rows, new_embeddings) == new_embeddings \o rows

\* Rows of the index after index.add(new_embeddings).
IndexAdd(rows, new_embeddings) == rows \o new_embeddings

\* The index add_new_document starts from when no faiss.index exists.
FirstIndex(chunks, failing) == build_faiss_index(chunks, failing)

RecoveredChunks_DropsNew(existing_chunks, chunks) == existing_chunks

\* all_chunks of the corrupted-index path: (existing_chunks or []) + chunks.
RecoveredChunks(existing_chunks, chunks) == existing_chunks \o chunks

AddResult(ok, branch, md, cp, fi) ==
    [ok |-> ok, branch |-> branch, metadata |-> md, chunksPkl |-> cp,
     faissIndex |-> fi]

\* add_new_document(file_path, user_id) on the user's artifacts md, cp, fi,
\* with the chunks of the uploaded file.
add_new_document(base, chunks, md, cp, fi, failing) ==
    IF NoChunksGenerated(chunks) THEN AddResult(FALSE, "skip", md, cp, fi)
    ELSE IF fi.exists /\ ~load_user_index(cp, fi).index.some THEN
        \* corrupted index: rebuild from (existing_chunks or []) + chunks
        LET all_chunks == RecoveredChunks(load_user_index(cp, fi).chunks, chunks)
            index == build_faiss_index(all_chunks, failing)
        IN  IF index.some
            THEN AddResult(TRUE, "recover", update_metadata(md, base, Len(chunks)),
                           save_user_index(cp, fi, index.rows, all_chunks, failing).chunksPkl,
                           save_user_index(cp, fi, index.rows, all_chunks, failing).faissIndex)
            ELSE AddResult(FALSE, "recover", md, cp, fi)
    ELSE
        LET loaded == load_user_index(cp, fi)
            index == IF fi.exists THEN loaded.index ELSE FirstIndex(chunks, failing)
            existing_chunks == IF fi.exists THEN loaded.chunks ELSE <<>>
            branch == IF fi.exists THEN "append" ELSE "first"
        IN  IF ~index.some THEN AddResult(FALSE, branch, md, cp, fi)
            ELSE IF EncodeRaises(failing) THEN AddResult(FALSE, branch, md, cp, fi)
            ELSE LET all_chunks == existing_chunks \o chunks
                     saved == save_user_index(cp, fi, IndexAdd(index.rows, encode(chunks)),
                                              all_chunks, failing)
                 IN  AddResult(TRUE, branch,
                               update_metadata(md, base, Len(chunks)),
                               saved.chunksPkl, saved.faissIndex)

-----------------------------------------------------------------------------
(* rebuild_index_from_files and delete_user_document *)

\* The loop of rebuild_index_from_files over the Ledger entries: every entry
\* whose file is present and yields chunks contributes them, in Ledger order.
RECURSIVE RebuildLoop(_, _)
RebuildLoop(entries, files) ==
    IF entries = <<>> THEN [all_chunks |-> <<>>, new_metadata |-> <<>>, present |-> FALSE]
    ELSE LET entry == Head(entries)
             rest == RebuildLoop(Tail(entries), files)
             file == files[entry.file]
             chunks == chunk_file(entry.file, file)
         IN  IF ~file.exists THEN rest
             ELSE IF chunks = <<>> THEN [rest EXCEPT !.present = TRUE]
             ELSE [all_chunks |-> chunks \o rest.all_chunks,
                   new_metadata |-> <<Entry(entry.file, Len(chunks))>> \o rest.new_metadata,
                   present |-> TRUE]

RebuildResult(ok, md, cp, fi, present, zero) ==
    [ok |-> ok, metadata |-> md, chunksPkl |-> cp, faissIndex |-> fi,
     present |-> present, zero |-> zero]

RebuildEmpty_PersistsEmptyIndex(md, cp, fi, present) ==
    RebuildResult(TRUE, md, SavedChunks(<<>>), SavedIndex(<<>>), present, TRUE)

\* "if not all_chunks": the artifacts are cleared and the rebuild returns True.
RebuildEmpty(md, cp, fi, present) ==
    RebuildResult(TRUE, md, clear_user_index(cp, fi).chunksPkl,
                  clear_user_index(cp, fi).faissIndex, present, TRUE)

\* rebuild_index_from_files(user_id).  present: some Ledger entry's file was
\* found in storage; zero: the rebuild yielded no chunks.
rebuild_index_from_files(files, md, cp, fi, failing) ==
    IF ~md.exists THEN RebuildEmpty(md, cp, fi, FALSE)
    ELSE LET loop == RebuildLoop(md.entries, files)
             written == [exists |-> TRUE, entries |-> loop.new_metadata]
             index == build_faiss_index(loop.all_chunks, failing)
         IN  IF loop.all_chunks = <<>> THEN RebuildEmpty(written, cp, fi, loop.present)
             ELSE IF ~index.some
             THEN RebuildResult(FALSE, written, cp, fi, loop.present, FALSE)
             ELSE RebuildResult(TRUE, written,
                    save_user_index(cp, fi, index.rows, loop.all_chunks, failing).chunksPkl,
                    save_user_index(cp, fi, index.rows, loop.all_chunks, failing).faissIndex,
                    loop.present, FALSE)

\* The Ledger after delete_user_document removed the entries named filename
\* (m.get("file") != filename compares with the filename as sent).
RemoveEntry(md, path) ==
    IF ~md.exists THEN md
    ELSE [exists |-> TRUE,
          entries |-> SelectSeq(md.entries,
                                LAMBDA m : ~(path.dir = "." /\ m.file = path.base))]

-----------------------------------------------------------------------------
(* get_response_stream *)

\* The rows not yet taken that are nearest to the query; -1 when none is left.
NearestLeft(rows, qv, taken) ==
    LET left == {i \in 0..(Len(rows) - 1) : \A j \in 1..Len(taken) : taken[j] # i}
    IN  IF left = {} THEN {-1}
        ELSE {i \in left : \A j \in left : L2(rows[i + 1], qv) <= L2(rows[j + 1], qv)}

\* The label sequences that extend taken by the k next nearest rows.
RECURSIVE NearestFirst(_, _, _, _)
NearestFirst(rows, qv, taken, k) ==
    IF k = 0 THEN {taken}
    ELSE UNION {NearestFirst(rows, qv, Append(taken, i), k - 1) :
                    i \in NearestLeft(rows, qv, taken)}

\* index.search(query_vec, k=3): the labels I[0] of the TOP_K nearest rows,
\* nearest first, rows numbered from 0; -1 fills the places of neighbours an
\* index of fewer than TOP_K rows does not have.  Rows at equal distance come
\* in either order.
SearchResults(rows, qv) == NearestFirst(rows, qv, <<>>, TOP_K)

\* D[0] of index.search for the labels I.
Distances(rows, qv, I) ==
    [j \in 1..TOP_K |-> IF I[j] < 0 THEN FLT_MAX ELSE L2(rows[I[j] + 1], qv)]

\* chunks[i] of a Python list: a negative i counts from the end.
PyItem(chunks, i) == IF i >= 0 THEN chunks[i + 1] ELSE chunks[Len(chunks) + i + 1]

\* valid_indices = [i for i in I[0] if i < len(chunks)]
ValidIndices(I, chunks) == SelectSeq(I, LAMBDA i : i < Len(chunks))

Mismatch_OnlyFewerRows(index, chunks) == index.some /\ Len(index.rows) < Len(chunks)

\* "if total_vectors != chunk_count"
Mismatch(index, chunks) == index.some /\ Len(index.rows) # Len(chunks)

\* The auto-repair of get_response_stream: the index and chunks the query
\* goes on with, and the artifacts as it leaves them.
RepairOnRead(cp, fi, failing) ==
    LET loaded == load_user_index(cp, fi)
        rebuilt == build_faiss_index(loaded.chunks, failing)
    IN  IF Mismatch(loaded.index, loaded.chunks) /\ loaded.chunks # <<>>
        THEN IF rebuilt.some
             THEN [index |-> rebuilt, chunks |-> loaded.chunks, mismatch |-> TRUE,
                   repaired |-> TRUE,
                   chunksPkl |-> save_user_index(cp, fi, rebuilt.rows, loaded.chunks,
                                                 failing).chunksPkl,
                   faissIndex |-> save_user_index(cp, fi, rebuilt.rows, loaded.chunks,
                                                  failing).faissIndex]
             ELSE [index |-> NoneIndex, chunks |-> loaded.chunks, mismatch |-> TRUE,
                   repaired |-> FALSE, chunksPkl |-> cp, faissIndex |-> fi]
        ELSE [index |-> loaded.index, chunks |-> loaded.chunks,
              mismatch |-> Mismatch(loaded.index, loaded.chunks),
              repaired |-> FALSE, chunksPkl |-> cp, faissIndex |-> fi]

\* "if index is None or not chunks": no retrieval, the no-documents prompt.
SkipsRetrieval(index, chunks) == ~index.some \/ chunks = <<>>

\* "if not valid_indices or D[0][0] > RELEVANCE_THRESHOLD"
NotRelevant(valid_indices, D) == valid_indices = <<>> \/ D[1] > RELEVANCE_THRESHOLD

\* The prompt built from a search result: the template and its context block.
BuildPrompt(chunks, I, D) ==
    LET valid_indices == ValidIndices(I, chunks)
    IN  IF NotRelevant(valid_indices, D)
        THEN [prompt |-> "no_relevant", context |-> <<>>]
        ELSE [prompt |-> "context",
              context |-> [j \in 1..Len(valid_indices) |-> PyItem(chunks, valid_indices[j])]]

-----------------------------------------------------------------------------
(* Requests *)

NoPath == [dir |-> ".", base |-> "a.txt"]

\* What a request leaves in last; the fields a request does not set keep
\* these values.
NoLast ==
    [op |-> "init", user |-> "u1", path |-> NoPath, ok |-> TRUE, branch |-> "none",
     prompt |-> "none", context |-> <<>>, query |-> "q_origin",
     labels |-> <<>>, distances |-> <<>>,
     searched |-> FALSE, searchRows |-> 0, searchChunks |-> 0,
     mismatch |-> FALSE, repaired |-> FALSE,
     present |-> FALSE, zero |-> FALSE, sole |-> FALSE, afterSole |-> FALSE,
     failing |-> {}]

\* The requests that may be in flight at once: the event loop running an
\* upload and a thread of the pool running a delete (or a second server
\* process running another upload).
Workers == {"p1", "p2"}

\* A worker's position in its request and what it holds in memory: the
\* artifacts it is about to write, computed from what it loaded.  stale: the
\* chunks.pkl it loaded has been changed by another request since.
Idle ==
    [pc |-> "idle", kind |-> "none", path |-> NoPath, text |-> <<>>, n |-> 0,
     ok |-> TRUE, toChunks |-> NoChunks, toIndex |-> NoIndex, stale |-> FALSE]

\* The artifacts of one user.
Snapshot(u) ==
    [srcFiles |-> srcFiles[u], metadata |-> metadata[u],
     chunksPkl |-> chunksPkl[u], faissIndex |-> faissIndex[u]]

NoSnapshot ==
    [srcFiles |-> [f \in FileNames |-> NoSrc], metadata |-> NoMetadata,
     chunksPkl |-> NoChunks, faissIndex |-> NoIndex]

\* phase: no request in flight yet ("setup"), requests in flight ("racing"),
\* or the process died in the middle of one ("crashed").  overlap: a request
\* saved the artifacts it computed from a chunks.pkl that another request had
\* changed in between.
NoEpisode == [phase |-> "setup", start |-> NoSnapshot, overlap |-> FALSE]

Init ==
    /\ srcFiles = [u \in Users |-> [f \in FileNames |-> NoSrc]]
    /\ metadata = [u \in Users |-> NoMetadata]
    /\ chunksPkl = [u \in Users |-> NoChunks]
    /\ faissIndex = [u \in Users |-> NoIndex]
    /\ last = NoLast
    /\ inflight = [p \in Workers |-> Idle]
    /\ episode = NoEpisode

\* POST /upload: upload_file saves the file under the name the client sent and
\* calls add_new_document.
Upload(u, path, text, failing) ==
    LET dir == JoinDir(u, path)
        file == [exists |-> TRUE, text |-> text]
        r == add_new_document(path.base, chunk_file(path.base, file), metadata[u],
                              chunksPkl[u], faissIndex[u], failing)
    IN  /\ Len(metadata[u].entries) < MaxDocs
        /\ Len(chunksPkl[u].chunks) + Len(text) <= MaxChunks
        /\ srcFiles' = [srcFiles EXCEPT ![dir][path.base] = file]
        /\ metadata' = [metadata EXCEPT ![u] = r.metadata]
        /\ chunksPkl' = [chunksPkl EXCEPT ![u] = r.chunksPkl]
        /\ faissIndex' = [faissIndex EXCEPT ![u] = r.faissIndex]
        /\ last' = [NoLast EXCEPT !.op = "upload", !.user = u, !.path = path,
                                  !.ok = r.ok, !.branch = r.branch,
                                  !.failing = failing]
        /\ UNCHANGED <<inflight, episode>>

\* DELETE /user/{user_id}/docs: delete_user_document removes the file, drops
\* its Ledger entries and rebuilds from the remaining files.
Delete(u, path, failing) ==
    LET dir == JoinDir(u, path)
        files == [srcFiles EXCEPT ![dir][path.base] = NoSrc]
        r == rebuild_index_from_files(files[u], RemoveEntry(metadata[u], path),
                                      chunksPkl[u], faissIndex[u], failing)
    IN  /\ srcFiles' = files
        /\ metadata' = [metadata EXCEPT ![u] = r.metadata]
        /\ chunksPkl' = [chunksPkl EXCEPT ![u] = r.chunksPkl]
        /\ faissIndex' = [faissIndex EXCEPT ![u] = r.faissIndex]
        /\ last' = [NoLast EXCEPT !.op = "delete", !.user = u, !.path = path,
                                  !.ok = r.ok, !.present = r.present, !.zero = r.zero,
                                  !.failing = failing,
                                  !.sole = /\ path.dir = "."
                                           /\ Len(metadata[u].entries) = 1
                                           /\ metadata[u].entries[1].file = path.base]
        /\ UNCHANGED <<inflight, episode>>

\* POST /ask: get_response_stream up to the prompt it hands to the model.
Query(u, q, failing) ==
    LET rep == RepairOnRead(chunksPkl[u], faissIndex[u], failing)
        qv == EmbedQuery(q)
        base == [NoLast EXCEPT !.op = "query", !.user = u, !.query = q,
                               !.mismatch = rep.mismatch, !.repaired = rep.repaired,
                               !.failing = failing,
                               !.afterSole = /\ last.op = "delete" /\ last.user = u
                                             /\ last.sole]
    IN  /\ chunksPkl' = [chunksPkl EXCEPT ![u] = rep.chunksPkl]
        /\ faissIndex' = [faissIndex EXCEPT ![u] = rep.faissIndex]
        /\ UNCHANGED <<srcFiles, metadata, inflight, episode>>
        /\ IF SkipsRetrieval(rep.index, rep.chunks)
           THEN last' = [base EXCEPT !.prompt = "no_documents"]
           ELSE IF "encode" \in failing
           THEN last' = [base EXCEPT !.ok = FALSE, !.prompt = "error"]
           ELSE \E I \in SearchResults(rep.index.rows, qv) :
                  LET D == Distances(rep.index.rows, qv, I)
                      p == BuildPrompt(rep.chunks, I, D)
                  IN  last' = [base EXCEPT !.prompt = p.prompt, !.context = p.context,
                                           !.labels = I, !.distances = D,
                                           !.searched = TRUE,
                                           !.searchRows = Len(rep.index.rows),
                                           !.searchChunks = Len(rep.chunks)]

\* The faiss.index file is damaged on disk.
CorruptIndex(u) ==
    /\ faissIndex[u].exists /\ faissIndex[u].ok
    /\ faissIndex' = [faissIndex EXCEPT ![u].ok = FALSE]
    /\ last' = [NoLast EXCEPT !.op = "corrupt", !.user = u]
    /\ UNCHANGED <<srcFiles, metadata, chunksPkl, inflight, episode>>

\* The chunks.pkl file is damaged on disk.
CorruptChunks(u) ==
    /\ chunksPkl[u].exists /\ chunksPkl[u].ok
    /\ chunksPkl' = [chunksPkl EXCEPT ![u].ok = FALSE]
    /\ last' = [NoLast EXCEPT !.op = "corrupt", !.user = u]
    /\ UNCHANGED <<srcFiles, metadata, faissIndex, inflight, episode>>

-----------------------------------------------------------------------------
(* Requests one file access at a time *)

\* A request about to start: an upload of text under path, or a delete of path.
AddOp(path, text) == [kind |-> "add", path |-> path, text |-> text]
DeleteOp(path) == [kind |-> "delete", path |-> path, text |-> <<>>]
NoOp == [kind |-> "none", path |-> NoPath, text |-> <<>>]

\* The uploads that reach save_user_index, and the deletes.
RaceAdds ==
    {AddOp(in.path, in.text) : in \in {i \in UploadInputs :
        chunk_file(i.path.base, [exists |-> TRUE, text |-> i.text]) # <<>>}}
RaceDeletes == {DeleteOp(path) : path \in PlainPaths}

Started(o) ==
    IF o.kind = "none" THEN Idle
    ELSE [Idle EXCEPT !.pc = "load", !.kind = o.kind, !.path = o.path, !.text = o.text]

AfterSaveChunks_AnyWrite(u, p) ==
    [q \in Workers |->
        IF q = p THEN [inflight[p] EXCEPT !.pc = "saveIndex"]
        ELSE IF inflight[q].pc = "saveChunks"
             THEN [inflight[q] EXCEPT !.stale = TRUE]
             ELSE inflight[q]]

\* inflight after worker p wrote chunks.pkl: p moves on, and what any other
\* worker loaded and has not saved yet is stale if the file changed.
AfterSaveChunks(u, p) ==
    [q \in Workers |->
        IF q = p THEN [inflight[p] EXCEPT !.pc = "saveIndex"]
        ELSE IF /\ inflight[q].pc = "saveChunks"
                /\ inflight[p].toChunks # chunksPkl[u]
             THEN [inflight[q] EXCEPT !.stale = TRUE]
             ELSE inflight[q]]

Step(u) == [NoLast EXCEPT !.op = "step", !.user = u]

\* Two requests for the same user arrive; no lock orders them.
Begin(u, o1, o2) ==
    /\ episode.phase = "setup"
    /\ Len(metadata[u].entries) < MaxDocs
    /\ Len(chunksPkl[u].chunks) + Len(o1.text) <= MaxChunks
    /\ Len(chunksPkl[u].chunks) + Len(o2.text) <= MaxChunks
    /\ inflight' = [inflight EXCEPT !["p1"] = Started(o1), !["p2"] = Started(o2)]
    /\ episode' = [phase |-> "racing", start |-> Snapshot(u), overlap |-> FALSE]
    /\ last' = Step(u)
    /\ UNCHANGED <<srcFiles, metadata, chunksPkl, faissIndex>>

\* upload_file writes the file; add_new_document chunks it, loads the index
\* and the chunks and computes the index and the chunk list it will save.
AddLoad(u, p) ==
    LET w == inflight[p]
        dir == JoinDir(u, w.path)
        file == [exists |-> TRUE, text |-> w.text]
        chunks == chunk_file(w.path.base, file)
        r == add_new_document(w.path.base, chunks, metadata[u], chunksPkl[u],
                              faissIndex[u], NoFailure)
    IN  /\ w.pc = "load" /\ w.kind = "add"
        /\ srcFiles' = [srcFiles EXCEPT ![dir][w.path.base] = file]
        /\ inflight' = [inflight EXCEPT ![p] =
              IF r.ok
              THEN [w EXCEPT !.pc = "saveChunks", !.n = Len(chunks),
                             !.toChunks = r.chunksPkl, !.toIndex = r.faissIndex]
              ELSE [w EXCEPT !.pc = "done", !.ok = FALSE]]
        /\ last' = Step(u)
        /\ UNCHANGED <<metadata, chunksPkl, faissIndex, episode>>

\* save_user_index, first write: pickle.dump(chunks) into chunks.pkl
\* (clear_user_index: chunks.pkl removed).
SaveChunks(u, p) ==
    /\ inflight[p].pc = "saveChunks"
    /\ chunksPkl' = [chunksPkl EXCEPT ![u] = inflight[p].toChunks]
    /\ inflight' = AfterSaveChunks(u, p)
    /\ episode' = [episode EXCEPT !.overlap = @ \/ inflight[p].stale]
    /\ last' = Step(u)
    /\ UNCHANGED <<srcFiles, metadata, faissIndex>>

\* save_user_index, second write: faiss.write_index (clear_user_index:
\* faiss.index removed).
SaveIndex(u, p) ==
    /\ inflight[p].pc = "saveIndex"
    /\ faissIndex' = [faissIndex EXCEPT ![u] = inflight[p].toIndex]
    /\ inflight' = [inflight EXCEPT ![p].pc =
                        IF inflight[p].kind = "add" THEN "meta" ELSE "done"]
    /\ last' = Step(u)
    /\ UNCHANGED <<srcFiles, metadata, chunksPkl, episode>>

\* update_metadata at the end of add_new_document.
AddMeta(u, p) ==
    /\ inflight[p].pc = "meta"
    /\ metadata' = [metadata EXCEPT ![u] =
                        update_metadata(metadata[u], inflight[p].path.base, inflight[p].n)]
    /\ inflight' = [inflight EXCEPT ![p].pc = "done"]
    /\ last' = Step(u)
    /\ UNCHANGED <<srcFiles, chunksPkl, faissIndex, episode>>

\* delete_user_document up to its call of rebuild_index_from_files: the file
\* is removed and the Ledger rewritten without its entries.
DelRemove(u, p) ==
    LET w == inflight[p]
        dir == JoinDir(u, w.path)
    IN  /\ w.pc = "load" /\ w.kind = "delete"
        /\ srcFiles' = [srcFiles EXCEPT ![dir][w.path.base] = NoSrc]
        /\ metadata' = [metadata EXCEPT ![u] = RemoveEntry(metadata[u], w.path)]
        /\ inflight' = [inflight EXCEPT ![p].pc = "rebuild"]
        /\ last' = Step(u)
        /\ UNCHANGED <<chunksPkl, faissIndex, episode>>

\* rebuild_index_from_files up to the build: the Ledger is read, the files are
\* chunked again, the new Ledger is written.
DelRebuild(u, p) ==
    LET w == inflight[p]
        r == rebuild_index_from_files(srcFiles[u], metadata[u], chunksPkl[u],
                                      faissIndex[u], NoFailure)
    IN  /\ w.pc = "rebuild"
        /\ metadata' = [metadata EXCEPT ![u] = r.metadata]
        /\ inflight' = [inflight EXCEPT ![p] =
              [w EXCEPT !.pc = "saveChunks", !.ok = r.ok,
                        !.toChunks = r.chunksPkl, !.toIndex = r.faissIndex]]
        /\ last' = Step(u)
        /\ UNCHANGED <<srcFiles, chunksPkl, faissIndex, episode>>

\* The process dies after one artifact write of a request and before its
\* last; what the request held in memory is gone.
Crash(u) ==
    /\ episode.phase = "racing"
    /\ \E p \in Workers :
          \/ inflight[p].pc \in {"saveIndex", "meta"}
          \/ inflight[p].kind = "delete" /\ inflight[p].pc \in {"rebuild", "saveChunks"}
    /\ inflight' = [p \in Workers |-> Idle]
    /\ episode' = [episode EXCEPT !.phase = "crashed"]
    /\ last' = [NoLast EXCEPT !.op = "crash", !.user = u]
    /\ UNCHANGED <<srcFiles, metadata, chunksPkl, faissIndex>>

-----------------------------------------------------------------------------
(* Specifications *)

\* One user, plain filenames, a working embedding provider.
Next ==
    \/ \E in \in UploadInputs : Upload("u1", in.path, in.text, NoFailure)
    \/ \E path \in PlainPaths : Delete("u1", path, NoFailure)
    \/ \E q \in Queries : Query("u1", q, NoFailure)

Spec == Init /\ [][Next]_vars

\* Only uploads that add_new_document accepts: the incremental history of a
\* user's index.
NextAdds ==
    \E u \in Users, in \in UploadInputs :
        /\ chunk_file(in.path.base, [exists |-> TRUE, text |-> in.text]) # <<>>
        /\ Upload(u, in.path, in.text, NoFailure)

SpecAdds == Init /\ [][NextAdds]_vars

\* Two users, and filenames that carry a "../<user>/" prefix.
NextUsers ==
    \/ \E u \in Users, path \in OwnPaths \cup TraversalPaths, text \in Texts \ {<<0>>} :
           Upload(u, path, text, NoFailure)
    \/ \E u \in Users, path \in OwnPaths \cup TraversalPaths : Delete(u, path, NoFailure)
    \/ \E u \in Users : Query(u, "q_origin", NoFailure)

SpecUsers == Init /\ [][NextUsers]_vars

\* One user whose faiss.index may get damaged between requests.
NextCorrupt ==
    \/ Next
    \/ CorruptIndex("u1")

SpecCorrupt == Init /\ [][NextCorrupt]_vars

\* One user, an embedding provider that may fail at any call.
NextFaults ==
    \/ \E in \in UploadInputs, failing \in Failures :
           Upload("u1", in.path, in.text, failing)
    \/ \E path \in PlainPaths, failing \in Failures : Delete("u1", path, failing)
    \/ \E failing \in Failures : Query("u1", "q_three", failing)

SpecFaults == Init /\ [][NextFaults]_vars

\* One user, with artifact writes that may fail during an add.
NextSaveFaults ==
    \/ \E in \in UploadInputs, failing \in SaveFailures :
           Upload("u1", in.path, in.text, failing)
    \/ \E path \in PlainPaths : Delete("u1", path, NoFailure)
    \/ Query("u1", "q_origin", NoFailure)

SpecSaveFaults == Init /\ [][NextSaveFaults]_vars

\* One user's adds and deletes, with an embedding provider that may fail during
\* an add and artifacts that may get damaged between requests.
NextFaultsCorrupt ==
    \/ \E in \in UploadInputs, failing \in Failures :
           Upload("u1", in.path, in.text, failing)
    \/ \E path \in PlainPaths : Delete("u1", path, NoFailure)
    \/ CorruptIndex("u1")
    \/ CorruptChunks("u1")

SpecFaultsCorrupt == Init /\ [][NextFaultsCorrupt]_vars

\* One user whose faiss.index or chunks.pkl may get damaged between requests.
NextDamage ==
    \/ Next
    \/ CorruptIndex("u1")
    \/ CorruptChunks("u1")

SpecDamage == Init /\ [][NextDamage]_vars

\* One user: uploads one after the other, then two requests in flight at once,
\* an add with another add or with a delete.
NextRace ==
    \/ /\ episode.phase = "setup"
       /\ \E in \in UploadInputs : Upload("u1", in.path, in.text, NoFailure)
    \/ \E o1 \in RaceAdds, o2 \in RaceAdds \cup RaceDeletes : Begin("u1", o1, o2)
    \/ \E p \in Workers :
          \/ AddLoad("u1", p)
          \/ SaveChunks("u1", p)
          \/ SaveIndex("u1", p)
          \/ AddMeta("u1", p)
          \/ DelRemove("u1", p)
          \/ DelRebuild("u1", p)

SpecRace == Init /\ [][NextRace]_vars

\* One user: requests one after the other, then one add or delete during which
\* the process dies, then queries.
NextCrash ==
    \/ /\ episode.phase = "setup"
       /\ \E in \in UploadInputs : Upload("u1", in.path, in.text, NoFailure)
    \/ \E o \in RaceAdds \cup RaceDeletes : Begin("u1", o, NoOp)
    \/ AddLoad("u1", "p1")
    \/ SaveChunks("u1", "p1")
    \/ SaveIndex("u1", "p1")
    \/ AddMeta("u1", "p1")
    \/ DelRemove("u1", "p1")
    \/ DelRebuild("u1", "p1")
    \/ Crash("u1")
    \/ /\ episode.phase = "crashed"
       /\ \E q \in Queries : Query("u1", q, NoFailure)

SpecCrash == Init /\ [][NextCrash]_vars

-----------------------------------------------------------------------------
(* Properties *)

Rows(u) == IF faissIndex[u].exists THEN Len(faissIndex[u].rows) ELSE 0
ChunkCount(u) == IF chunksPkl[u].exists THEN Len(chunksPkl[u].chunks) ELSE 0
Ledger(u) == IF metadata[u].exists THEN metadata[u].entries ELSE <<>>

\* C1: after every completed add_new_document and delete_user_document the
\* persisted Vector Index has as many rows as the persisted Chunk Store has
\* chunks, the state right after the first add included.
C1_IndexMatchesChunkStore ==
    \A u \in Users :
        last.op \in {"upload", "delete"} /\ last.user = u => Rows(u) = ChunkCount(u)

\* The distance from the query of the j-th text of the context block.
ContextDistance(j) == L2(Embed(last.context[j]), EmbedQuery(last.query))

\* C2: a query that searched is ungrounded with no chunk text when the
\* nearest distance exceeds the threshold, and otherwise grounded with the
\* text of at most 3 chunks, nearest first.
C2_RelevanceGating ==
    last.op = "query" /\ last.searched =>
        IF last.distances[1] > RELEVANCE_THRESHOLD
        THEN last.prompt = "no_relevant" /\ last.context = <<>>
        ELSE /\ last.prompt = "context"
             /\ Len(last.context) \in 1..TOP_K
             /\ \A j \in 1..(Len(last.context) - 1) :
                    ContextDistance(j) <= ContextDistance(j + 1)

\* C3: deleting the only document of the Ledger succeeds, leaves the Ledger
\* empty and neither artifact on disk, and the next query of that user gets
\* the no-context prompt.
C3_DeleteSoleDocument ==
    /\ last.op = "delete" /\ last.sole =>
          /\ last.ok
          /\ Ledger(last.user) = <<>>
          /\ ~chunksPkl[last.user].exists
          /\ ~faissIndex[last.user].exists
    /\ last.op = "query" /\ last.afterSole =>
          /\ last.prompt = "no_documents"
          /\ last.context = <<>>
          /\ ~last.searched

C3_Witness == last.op = "query" /\ last.afterSole

\* C4: a query that loads an index whose row count differs from the chunk
\* count rebuilds it from the loaded chunks and saves it before searching: a
\* search only runs on an index with as many rows as chunks, and after the
\* query the persisted artifacts have equal length.
C4_RepairOnRead ==
    last.op = "query" =>
        /\ last.mismatch =>
              /\ last.repaired
              /\ faissIndex[last.user].exists /\ chunksPkl[last.user].exists
              /\ faissIndex[last.user].rows = encode(chunksPkl[last.user].chunks)
              /\ Rows(last.user) = ChunkCount(last.user)
        /\ last.searched => last.searchRows = last.searchChunks

C4_Witness == last.op = "query" /\ last.mismatch /\ last.searched

\* C5: the Chunk Store built by incremental adds equals the one a rebuild
\* from the resulting Ledger produces.
C5_RebuildEquivalence ==
    \A u \in Users :
        chunksPkl[u].exists =>
            chunksPkl[u].chunks = RebuildLoop(Ledger(u), srcFiles[u]).all_chunks

\* Everything stored for user v.
UserState(v) == <<srcFiles[v], metadata[v], chunksPkl[v], faissIndex[v]>>

\* C6: a request of user u leaves everything stored for every other user as
\* it was.
C6_Isolation ==
    [][\A v \in Users : v # last'.user => UserState(v)' = UserState(v)]_vars

\* C7: after every completed add_new_document and delete_user_document the
\* chunk counts of the Ledger add up to the length of the Chunk Store.
C7_LedgerSum ==
    \A u \in Users :
        last.op \in {"upload", "delete"} /\ last.user = u =>
            SumChunks(Ledger(u)) = ChunkCount(u)

\* C8: an upload whose file yields no chunks reports failure and leaves the
\* Ledger, the Vector Index and the Chunk Store as they were.
C8_EmptyChunksNoMutation ==
    [][(/\ last'.op = "upload"
        /\ chunk_file(last'.path.base, srcFiles'[last'.user][last'.path.base]) = <<>>)
       => /\ ~last'.ok
          /\ metadata' = metadata
          /\ chunksPkl' = chunksPkl
          /\ faissIndex' = faissIndex]_vars

C8_Witness ==
    /\ last.op = "upload" /\ ~last.ok
    /\ chunk_file(last.path.base, srcFiles[last.user][last.path.base]) = <<>>
    /\ faissIndex[last.user].exists
    /\ Ledger(last.user) # <<>>

\* C9: a rebuild that fails leaves the Ledger, the Vector Index and the
\* Chunk Store as they were when the rebuild started.
C9_FailedRebuildKeepsState ==
    [][(last'.op = "delete" /\ ~last'.ok)
       => /\ metadata'[last'.user] = RemoveEntry(metadata[last'.user], last'.path)
          /\ chunksPkl' = chunksPkl
          /\ faissIndex' = faissIndex]_vars

\* C10: a rebuild that yields no chunks although a file of the Ledger is
\* still in storage reports failure.
C10_ZeroChunksReportsFailure ==
    last.op = "delete" /\ last.zero /\ last.present => ~last.ok

\* The embedding provider failed at a call add_new_document made on the
\* path it took: the first build or the following encode, the encode of an
\* append, the build of a recovery.
EmbeddingFailedInAdd(branch, failing) ==
    \/ branch = "first" /\ failing # {}
    \/ branch = "append" /\ "encode" \in failing
    \/ branch = "recover" /\ "build" \in failing

\* C11: an add during which the embedding provider fails reports failure and
\* leaves the Vector Index, the Chunk Store and the Ledger as they were.
C11_EmbeddingFailureNoWrite ==
    [][(last'.op = "upload" /\ EmbeddingFailedInAdd(last'.branch, last'.failing))
       => /\ ~last'.ok
          /\ metadata' = metadata
          /\ chunksPkl' = chunksPkl
          /\ faissIndex' = faissIndex]_vars

C11_Witness ==
    /\ last.op = "upload" /\ last.branch = "append" /\ "encode" \in last.failing
    /\ Ledger(last.user) # <<>>

C11_WitnessFirst == last.op = "upload" /\ last.branch = "first" /\ last.failing = {"encode"}

C11_WitnessRecover == last.op = "upload" /\ last.branch = "recover" /\ "build" \in last.failing

\* The two templates of the Prompt Policy: the context template and the single
\* general-knowledge template ("No relevant info found in your uploaded docs").
TwoTemplates == {"context", "no_relevant"}

\* C12: the prompt handed to the generation step is one of exactly two
\* templates: the context template for a grounded query, and for every other
\* query (no index available, or retrieval not relevant) the same single
\* general-knowledge template.
C12_TwoTemplates ==
    (last.op = "query" /\ last.ok) => last.prompt \in TwoTemplates

\* The chunks N of the file the last upload wrote, read back in the next state.
UploadedChunks ==
    chunk_file(last'.path.base, srcFiles'[JoinDir(last'.user, last'.path)][last'.path.base])

\* C13: an add on a loadable index with r rows and Chunk Store C, for a file
\* yielding non-empty chunks N, leaves the r rows in place followed by the
\* embeddings of N, the Chunk Store C followed by N, and the prior Ledger
\* followed by exactly one entry (filename, len(N)).
C13_AppendFrame ==
    [][(last'.op = "upload" /\ last'.branch = "append" /\ last'.ok)
       => LET u == last'.user
              N == UploadedChunks
          IN  /\ N # <<>>
              /\ faissIndex'[u].rows = faissIndex[u].rows \o encode(N)
              /\ chunksPkl'[u].chunks = chunksPkl[u].chunks \o N
              /\ metadata'[u].entries
                    = Append(metadata[u].entries, Entry(last'.path.base, Len(N)))]_vars

C13_Witness ==
    /\ last.op = "upload" /\ last.branch = "append" /\ last.ok
    /\ Len(Ledger(last.user)) = 2
    /\ Ledger(last.user)[1].file # Ledger(last.user)[2].file

\* C14: an add that finds a faiss.index it cannot load (damaged, or its
\* chunks.pkl damaged) does no incremental append: with a working embedding
\* provider it persists a fresh index over the recovered chunks followed by the
\* new chunks, index and Chunk Store of equal length and both ending with the
\* new chunks, appends the Ledger entry and reports success; when the provider
\* fails the add reports failure, never an error.
C14_CorruptionRecovery ==
    [][(last'.op = "upload" /\ last'.branch = "recover")
       => LET u == last'.user
              N == UploadedChunks
              all == chunksPkl'[u].chunks
              k == Len(all) - Len(N)
          IN  IF "build" \in last'.failing THEN ~last'.ok
              ELSE /\ last'.ok
                   /\ chunksPkl'[u].exists /\ chunksPkl'[u].ok
                   /\ faissIndex'[u].exists /\ faissIndex'[u].ok
                   /\ faissIndex'[u].rows = encode(all)
                   /\ k >= 0 /\ SubSeq(all, k + 1, Len(all)) = N
                   /\ metadata'[u].entries
                         = Append(metadata[u].entries, Entry(last'.path.base, Len(N)))]_vars

C14_Witness ==
    /\ last.op = "upload" /\ last.branch = "recover" /\ last.ok
    /\ Len(Ledger(last.user)) = 2

C14_WitnessChunkStore ==
    /\ last.op = "upload" /\ last.branch = "recover" /\ last.ok
    /\ Rows(last.user) = 2

\* The prior Ledger entries the claim keeps after deleting filename: those not
\* naming it whose file is present in storage, in their order.
KeptEntries(entries, files, filename) ==
    SelectSeq(entries, LAMBDA e : e.file # filename /\ files[e.file].exists)

\* The entries with their chunk counts recomputed by re-chunking the files.
Recounted(entries, files) ==
    [i \in 1..Len(entries) |->
        Entry(entries[i].file, Len(chunk_file(entries[i].file, files[entries[i].file])))]

\* The chunks of the entries' files, concatenated in Ledger order.
RECURSIVE ConcatChunks(_, _)
ConcatChunks(entries, files) ==
    IF entries = <<>> THEN <<>>
    ELSE chunk_file(Head(entries).file, files[Head(entries).file])
            \o ConcatChunks(Tail(entries), files)

\* C15: after a successful delete_user_document(u, f) with a readable Ledger,
\* the Ledger holds no entry for f and exactly the prior entries whose file is
\* still in storage, in order, with re-chunked counts; the Chunk Store is the
\* concatenation of those files' chunks and the index is built from it.
C15_DeletePostcondition ==
    [][(last'.op = "delete" /\ last'.ok /\ metadata[last'.user].exists)
       => LET u == last'.user
              kept == KeptEntries(metadata[u].entries, srcFiles'[u], last'.path.base)
          IN  /\ metadata'[u].entries = Recounted(kept, srcFiles'[u])
              /\ chunksPkl'[u].chunks = ConcatChunks(kept, srcFiles'[u])
              /\ faissIndex'[u].rows = encode(chunksPkl'[u].chunks)]_vars

\* The user's chunks.pkl or faiss.index is missing or cannot be read.
Unloadable(u) ==
    \/ ~chunksPkl[u].exists \/ ~chunksPkl[u].ok
    \/ ~faissIndex[u].exists \/ ~faissIndex[u].ok

\* The prompts that carry no document context.
NoContextPrompts == {"no_documents", "no_relevant"}

\* C16: a query that finds the Chunk Store or the Vector Index unloadable skips
\* retrieval, still hands a no-context prompt to the generation step, and
\* leaves every persisted artifact of the user as it was.
C16_UnloadableSkipsRetrieval ==
    [][(last'.op = "query" /\ Unloadable(last'.user))
       => /\ last'.ok
          /\ ~last'.searched
          /\ last'.prompt \in NoContextPrompts
          /\ last'.context = <<>>
          /\ UNCHANGED <<srcFiles, metadata, chunksPkl, faissIndex>>]_vars

C16_Witness ==
    /\ last.op = "query"
    /\ chunksPkl[last.user].exists /\ ~chunksPkl[last.user].ok
    /\ faissIndex[last.user].exists /\ faissIndex[last.user].ok

C16_WitnessIndex ==
    /\ last.op = "query"
    /\ faissIndex[last.user].exists /\ ~faissIndex[last.user].ok

\* C17: every retrieval problem left unresolved during a query (artifacts
\* unloadable, mismatch repair failing, the query embedding or the search
\* failing) ends in a no-context prompt handed to the generation step; none
\* surfaces as an error out of get_response_stream.
C17_GracefulDegradation ==
    last.op = "query"
        => /\ last.ok
           /\ ~last.searched => last.prompt \in NoContextPrompts

\* The row positions among the returned labels that name a row of the Chunk
\* Store: 0 <= p < len(chunks), in the order returned.
ReturnedPositions(labels, n) == SelectSeq(labels, LAMBDA p : 0 <= p /\ p < n)

\* C20: the context of a grounded query holds exactly the chunks at the
\* returned positions p with 0 <= p < len(Chunk Store), each position once;
\* the -1 placeholders of an index with fewer than 3 rows contribute nothing.
C20_ContextFromReturnedRows ==
    (last.op = "query" /\ last.prompt = "context") =>
        LET chunks == chunksPkl[last.user].chunks
            positions == ReturnedPositions(last.labels, last.searchChunks)
        IN  /\ Len(last.context) = Len(positions)
            /\ \A j \in 1..Len(positions) : last.context[j] = chunks[positions[j] + 1]
            /\ \A i, j \in 1..Len(positions) : i # j => positions[i] # positions[j]

\* The request worker p was given.
OpOf(p) == [kind |-> inflight[p].kind, path |-> inflight[p].path, text |-> inflight[p].text]

\* A user's artifacts after one whole request, run alone from the artifacts st.
ApplyOp(st, o) ==
    IF o.kind = "add"
    THEN LET file == [exists |-> TRUE, text |-> o.text]
             r == add_new_document(o.path.base, chunk_file(o.path.base, file),
                                   st.metadata, st.chunksPkl, st.faissIndex, NoFailure)
         IN  [srcFiles |-> [st.srcFiles EXCEPT ![o.path.base] = file],
              metadata |-> r.metadata, chunksPkl |-> r.chunksPkl,
              faissIndex |-> r.faissIndex]
    ELSE LET files == [st.srcFiles EXCEPT ![o.path.base] = NoSrc]
             r == rebuild_index_from_files(files, RemoveEntry(st.metadata, o.path),
                                           st.chunksPkl, st.faissIndex, NoFailure)
         IN  [srcFiles |-> files, metadata |-> r.metadata, chunksPkl |-> r.chunksPkl,
              faissIndex |-> r.faissIndex]

\* What the two serial executions of the in-flight requests leave.
SerialOutcomes ==
    {ApplyOp(ApplyOp(episode.start, OpOf("p1")), OpOf("p2")),
     ApplyOp(ApplyOp(episode.start, OpOf("p2")), OpOf("p1"))}

BothDone ==
    /\ episode.phase = "racing"
    /\ \A p \in Workers : inflight[p].pc = "done"

\* C18: with no per-user lock, two requests on the same user (add/add or
\* add/delete) can overlap so that one saves what it computed from a Chunk
\* Store the other has changed since; whenever that happens, what they leave
\* differs from both serial executions.
C18_LostUpdate ==
    (BothDone /\ episode.overlap) => Snapshot("u1") \notin SerialOutcomes

\* Two adds overlapped and the Ledger lists a document whose chunks are not in
\* the Chunk Store.
C18_Witness ==
    /\ BothDone /\ episode.overlap
    /\ inflight["p2"].kind = "add"
    /\ SumChunks(Ledger("u1")) > ChunkCount("u1")

\* An add overlapped with a delete.
C18_WitnessDelete ==
    /\ BothDone /\ episode.overlap
    /\ inflight["p2"].kind = "delete"

\* C19: after a crash between two artifact writes of an add or a delete, the
\* first query that follows leaves the Vector Index and the Chunk Store with
\* equal length whenever the Chunk Store is loadable, and never builds a
\* context from an index whose row count differs from the Chunk Store length.
C19_CrashRepairedOnRead ==
    [][(last.op = "crash" /\ last'.op = "query")
       => LET u == last.user
          IN  /\ (chunksPkl[u].exists /\ chunksPkl[u].ok)
                    => Rows(u)' = ChunkCount(u)'
              /\ last'.prompt = "context"
                    => last'.searchRows = last'.searchChunks]_vars

\* The chunks.pkl cp and the faiss.index fi end with the chunks N and their
\* embeddings.
Persisted(cp, fi, N) ==
    /\ cp.exists /\ fi.exists
    /\ Len(cp.chunks) >= Len(N) /\ Len(fi.rows) >= Len(N)
    /\ SubSeq(cp.chunks, Len(cp.chunks) - Len(N) + 1, Len(cp.chunks)) = N
    /\ SubSeq(fi.rows, Len(fi.rows) - Len(N) + 1, Len(fi.rows)) = encode(N)

\* C21: add_new_document reports success or appends a Ledger entry only if
\* the new document's chunks are persisted in both the Chunk Store and the
\* Vector Index; when a write of either artifact fails no entry is appended
\* and the add reports failure.
C21_LedgerOnlyAfterPersist ==
    [][(last'.op = "upload" /\ (last'.ok \/ metadata' # metadata))
       => Persisted(chunksPkl'[last'.user], faissIndex'[last'.user], UploadedChunks)]_vars

\* C22: whenever a query runs the nearest-neighbour search, row i of the
\* Vector Index it searches is the embedding of chunk i of the chunk list it
\* uses, for every position i, after any completed adds, deletes and queries.
C22_PositionAligned ==
    (last.op = "query" /\ last.searched) =>
        /\ last.searchRows = last.searchChunks
        /\ faissIndex[last.user].rows = encode(chunksPkl[last.user].chunks)
        /\ Len(chunksPkl[last.user].chunks) = last.searchChunks


=============================================================================
